---- MODULE Spec2Model ----
(***************************************************************************)
(* Model of go-transformfile: the block-transform random-access engine     *)
(* (type rws in transformfile.go) over a seekable backing store, and the   *)
(* secretbox block transformers of naclfs/nacltr.                          *)
(***************************************************************************)
EXTENDS Integers, Sequences, FiniteSets, TLC

\* ------------------------------------------------------------------ bounds
MaxBlockSize == 2
MaxOverhead == 1
MaxOffset == 3
MaxData == 3
MaxInit == 2
MaxTrBlockSize == 2
MaxPlain == 3
MaxFaultAt == 2
MaxMultiData == 1

\* plaintext byte values
Bytes == {1, 2}
\* physical cell values of the engine's backing store
\* an overhead cell of a sealed block with a payload of l bytes
TagCell(l) == -1 - l
ZeroCell == 0

\* ----------------------------------------------------------------- helpers
Min(a, b) == IF a < b THEN a ELSE b

Max(a, b) == IF a > b THEN a ELSE b

\* Go's integer division truncates toward zero
GoDiv(a, b) == IF a >= 0 THEN a \div b ELSE -((-a) \div b)

\* Go's remainder has the sign of the dividend
GoMod(a, b) == a - b * GoDiv(a, b)

Repeat(c, n) == [i \in 1..n |-> c]

SeqsUpTo(S, n) == UNION {[1..k -> S] : k \in 0..n}

\* elements lo+1 .. hi of s (Go's s[lo:hi]), empty when hi <= lo
Slice(s, lo, hi) == IF hi <= lo THEN <<>> ELSE SubSeq(s, lo + 1, hi)

\* the nil slice; a loaded block is never nil, even when it is empty
NilBlock == <<-1>>

BlockLen(b) == IF b = NilBlock THEN 0 ELSE Len(b)

BlockBytes(b) == IF b = NilBlock THEN <<>> ELSE b

\* --------------------------------------------------------------- variables
VARIABLES
    blockSize,        \* rws.blockSize
    blockOverhead,    \* rws.blockOverhead
    index,            \* rws.index, the logical cursor
    currentBlock,     \* rws.currentBlock
    currentBlockIdx,  \* rws.currentBlockIdx
    atEOF,            \* rws.atEOF
    store,            \* physical cells of the backing store
    pos,              \* position of the backing store
    last,             \* the last call and what it returned
    pre,              \* cursor and logical content when the last call started
    content,          \* what reading the store from block 0 on yields
    firstData,        \* the data of a Write made on an empty stream at cursor 0
    readAcc,          \* bytes returned by the Reads since the last Seek(Start, 0)
    seekFail,         \* cursor kept by an immediately preceding failed Seek
    ioLog,            \* the store calls and loop passes of the last call, in order
    ioPre,            \* the engine and its store when the last call started
    ioErrs,           \* the lines of the error the last Sync or Close returned
    ioFault,          \* a call on the store was made to fail
    closed,           \* the backing store was closed
    multi,            \* two engines on one store: each one's state and Write under way
    trBlockSize,      \* secretboxTransformer.blockSize of both transformers
    encKey,           \* secretboxTransformer.key of the encrypt transformer
    decKey,           \* secretboxTransformer.key of the decrypt transformer
    encBuffer,        \* secretboxTransformer.buffer of the encrypt transformer
    decBuffer,        \* secretboxTransformer.buffer of the decrypt transformer
    plain,            \* the plaintext handed to the encrypt transformer
    given,            \* how much of plain the encrypt transformer has consumed
    wire,             \* the bytes the encrypt transformer has produced
    tampered,         \* what was changed on the wire
    fed,              \* how much of wire the decrypt transformer has consumed
    phase,            \* which of the two transformers is at work
    trLast            \* the last Transform call and what it returned

ioVars == <<ioLog, ioPre, ioErrs, ioFault, closed>>

engineVars == <<blockSize, blockOverhead, index, currentBlock, currentBlockIdx, atEOF,
                store, pos, last, pre, content, firstData, readAcc, seekFail, ioVars,
                multi>>

trVars == <<trBlockSize, encKey, decKey, encBuffer, decBuffer, plain, given, wire,
            tampered, fed, phase, trLast>>

vars == <<engineVars, trVars>>

\* the calls on the store that can be made to fail
FaultKinds == {"seek", "read", "write"}

\* fail[k] = j > 0: the j-th call of kind k from now on fails; 0: none fails
NoFaults == [k \in FaultKinds |-> 0]

\* the engines that share one store
Handles == {1, 2}

\* an engine as NewReadWriteSeeker makes it, before its Write: pc is where its
\* Write stands, d the buffer it writes, n the count so far, loaded the block
\* as the last load made it, at the cursor of the pass under way
NewHandle ==
    [pc |-> "new",
     e |-> [index |-> 0, block |-> NilBlock, idx |-> -1, eof |-> FALSE,
            store |-> <<>>, pos |-> 0, fail |-> NoFaults, log |-> <<>>],
     lerr |-> "nil", d |-> <<>>, n |-> 0, loaded |-> NilBlock, at |-> 0, err |-> "nil"]

NoMulti == [hs |-> [h \in Handles |-> NewHandle], who |-> 0, act |-> "none"]

\* the engine and its store as one value, for the operators below; log lists
\* the calls made on the store and the passes of the loops, in order
Engine == [index |-> index, block |-> currentBlock, idx |-> currentBlockIdx,
           eof |-> atEOF, store |-> store, pos |-> pos, fail |-> NoFaults, log |-> <<>>]

\* the call of kind k that e makes next fails
Fails(e, k) == e.fail[k] = 1

\* e after a call of kind k on the store, logged as entry
Called(e, k, entry) ==
    [e EXCEPT !.fail[k] = IF @ > 0 THEN @ - 1 ELSE 0,
              !.log = IF e.fail[k] = 1 THEN @ \o <<entry, <<"fault", k>>>>
                      ELSE Append(@, entry)]

\* e after a pass of a loop, logged as entry
Logged(e, entry) == [e EXCEPT !.log = Append(@, entry)]

\* ---------------------------------------------------------- backing store
SeekStart == 0
SeekCurrent == 1
SeekEnd == 2

\* Seeker.Seek: an in-memory file; any non-negative position is accepted
SeekerSeek(st, p, offset, whence) ==
    LET target == CASE whence = SeekStart -> offset
                    [] whence = SeekCurrent -> p + offset
                    [] OTHER -> Len(st) + offset
    IN IF target < 0
       THEN [pos |-> p, ret |-> 0, err |-> "EINVAL"]
       ELSE [pos |-> target, ret |-> target, err |-> "nil"]

\* cells of st from position p on, at most n of them
CellsAt(st, p, n) == Slice(st, p, Min(Len(st), p + n))

\* st with the cells w written at position p; a gap is filled with zero cells
Overwrite(st, p, w) ==
    Slice(st, 0, Min(p, Len(st))) \o Repeat(ZeroCell, p - Len(st)) \o w
        \o Slice(st, p + Len(w), Len(st))

\* ------------------------------------------- transforming reader and writer
\* a sealed block: ov overhead cells followed by the payload
SealedBlock(ov, payload) == Repeat(TagCell(Len(payload)), ov) \o payload

IsSealed(chunk, ov) ==
    /\ Len(chunk) >= ov
    /\ \A i \in 1..Len(chunk) :
           IF i <= ov THEN chunk[i] = TagCell(Len(chunk) - ov) ELSE chunk[i] \in Bytes

\* the decrypting stream handed the cells chunk of one block, read at position p
ReadChunk(chunk, p, m, ov) ==
    IF m = 0 THEN [data |-> <<>>, err |-> "nil", pos |-> p]
    ELSE IF Len(chunk) = 0 THEN [data |-> <<>>, err |-> "EOF", pos |-> p]
    ELSE IF IsSealed(chunk, ov)
         THEN [data |-> Slice(chunk, ov, Min(Len(chunk), ov + m)), err |-> "nil",
               pos |-> p + Len(chunk)]
    ELSE [data |-> <<>>, err |-> "errDecrypt", pos |-> p + Len(chunk)]

\* Reader.Read(p) with len(p) = m: opens the sealed block at the store position
ReaderRead(st, p, m, bs, ov) == ReadChunk(CellsAt(st, p, bs + ov), p, m, ov)

\* Writer.Write(p): seals p as one block at the store position
WriterWrite(st, p, data, ov) ==
    IF Len(data) = 0
    THEN [n |-> 0, err |-> "nil", store |-> st, pos |-> p]
    ELSE [n |-> Len(data), err |-> "nil",
          store |-> Overwrite(st, p, SealedBlock(ov, data)),
          pos |-> p + ov + Len(data)]

\* the store's Seek as the engine e sees it: it fails when made to
StoreSeek(e, offset, whence) ==
    IF Fails(e, "seek") THEN [pos |-> e.pos, ret |-> 0, err |-> "EIO"]
    ELSE SeekerSeek(e.store, e.pos, offset, whence)

\* the decrypting stream's Read as the engine e sees it
StoreRead(e, m, bs, ov) ==
    IF Fails(e, "read") THEN [data |-> <<>>, err |-> "EIO", pos |-> e.pos]
    ELSE ReaderRead(e.store, e.pos, m, bs, ov)

\* the encrypting stream's Write as the engine e sees it, the store at position p
StoreWrite(e, p, data, ov) ==
    IF Fails(e, "write") THEN [n |-> 0, err |-> "EIO", store |-> e.store, pos |-> p]
    ELSE WriterWrite(e.store, p, data, ov)

\* ------------------------------------------------------------- the engine
position(e, bs) == [block |-> GoDiv(e.index, bs), offset |-> GoMod(e.index, bs)]

\* addOverhead with the block count rounded down
addOverhead_truncating(offset, bs, ov) == offset + GoDiv(offset, bs) * ov

addOverhead(offset, bs, ov) ==
    offset + (GoDiv(offset, bs) + (IF GoMod(offset, bs) > 0 THEN 1 ELSE 0)) * ov

\* removeOverhead with the block count rounded down
removeOverhead_truncating(offset, bs, ov) == offset - GoDiv(offset, bs + ov) * ov

\* removeOverhead counting blocks of blockSize instead of blockSize + blockOverhead
removeOverhead_logicalBlocks(offset, bs, ov) ==
    offset - (GoDiv(offset, bs) + (IF GoMod(offset, bs) > 0 THEN 1 ELSE 0)) * ov

removeOverhead(offset, bs, ov) ==
    offset - (GoDiv(offset, bs + ov) + (IF GoMod(offset, bs + ov) > 0 THEN 1 ELSE 0)) * ov

\* mergeBlocks without the final reslice: the bytes behind the written range are cut off
mergeBlocks_dropTail(block, insert, offset, bs) ==
    [block |-> Slice(block, 0, offset) \o Slice(insert, 0, Min(Len(insert), bs - offset)),
     n |-> Min(Len(insert), bs - offset)]

\* mergeBlocks taking all of insert, the block growing beyond blockSize
mergeBlocks_unbounded(block, insert, offset, bs) ==
    [block |-> Slice(block, 0, offset) \o Repeat(ZeroCell, offset - Len(block))
                 \o insert \o Slice(block, offset + Len(insert), Len(block)),
     n |-> Len(insert)]

\* append writes in place: the bytes behind the written range stay in the array
\* and the final reslice brings them back
mergeBlocks(block, insert, offset, bs) ==
    LET slen == Len(block)
        n == Min(Len(insert), bs - offset)
        array == Slice(block, 0, offset) \o Repeat(ZeroCell, offset - slen)
                   \o Slice(insert, 0, n) \o Slice(block, offset + n, slen)
    IN [block |-> Slice(array, 0, Min(Max(slen, offset + n), bs)), n |-> n]

\* seekSourceToBlock after the store's Seek returned r
seekSourceResult(e, r, seekTarget) ==
    [e |-> [e EXCEPT !.pos = r.pos],
     err |-> IF r.err # "nil" THEN "Seek error"
             ELSE IF r.ret # seekTarget THEN "Unexpected seek result"
             ELSE "nil"]

seekSourceToBlock(e, blockIdx, bs, ov) ==
    IF blockIdx * (bs + ov) < 0 THEN [e |-> e, err |-> "ErrInvalidSeek"]
    ELSE seekSourceResult(Called(e, "seek", <<"seek", blockIdx * (bs + ov)>>),
                          StoreSeek(e, blockIdx * (bs + ov), SeekStart),
                          blockIdx * (bs + ov))

\* the read loop of loadBlock: fills b[n:] until the block is full or an error;
\* got is b[:n]
RECURSIVE loadLoop(_, _, _, _)
\* loadLoopRead forgetting the bytes of a Read that returned no error
loadLoopRead_dropped(e, got, r, bs, ov) ==
    IF r.err # "nil"
    THEN [e |-> [e EXCEPT !.pos = r.pos], data |-> got \o r.data, err |-> r.err]
    ELSE loadLoop([e EXCEPT !.pos = r.pos], got, bs, ov)

loadLoopRead(e, got, r, bs, ov) ==
    IF r.err # "nil"
    THEN [e |-> [e EXCEPT !.pos = r.pos], data |-> got \o r.data, err |-> r.err]
    ELSE loadLoop([e EXCEPT !.pos = r.pos], got \o r.data, bs, ov)

loadLoop(e, got, bs, ov) ==
    IF Len(got) >= bs THEN [e |-> e, data |-> got, err |-> "nil"]
    ELSE loadLoopRead(Called(e, "read", <<"read", e.pos, Len(got)>>), got,
                      StoreRead(e, bs - Len(got), bs, ov), bs, ov)

\* loadBlock after its read loop returned r
loadBlockRead(r, blockIdx) ==
    [e |-> [r.e EXCEPT !.block = r.data, !.idx = blockIdx, !.eof = (r.err = "EOF")],
     err |-> IF r.err \in {"nil", "EOF"} THEN "nil" ELSE "Error reading block"]

\* loadBlock after seekSourceToBlock returned s
loadBlockSeeked(s, blockIdx, bs, ov) ==
    IF s.err # "nil" THEN [e |-> s.e, err |-> "Error seeking to start of block"]
    ELSE loadBlockRead(loadLoop(s.e, <<>>, bs, ov), blockIdx)

\* loadBlock keeping the cached block when it is the block of the cursor
loadBlock_cached(e, bs, ov) ==
    IF e.block # NilBlock /\ e.idx = position(e, bs).block THEN [e |-> e, err |-> "nil"]
    ELSE loadBlockSeeked(seekSourceToBlock(e, position(e, bs).block, bs, ov),
                         position(e, bs).block, bs, ov)

loadBlock(e, bs, ov) ==
    loadBlockSeeked(seekSourceToBlock(e, position(e, bs).block, bs, ov),
                    position(e, bs).block, bs, ov)

\* flushCurrentBlock after Writer.Write returned w
flushWritten(e, w) ==
    [e |-> [e EXCEPT !.store = w.store, !.pos = w.pos],
     err |-> IF w.err # "nil" THEN w.err
             ELSE IF w.n # Len(e.block) THEN "Could write block"
             ELSE "nil"]

\* flushCurrentBlock after the store's Seek left the store at position p
flushSeeked(e, p, ov) ==
    flushWritten(Called(e, "write", <<"write", p, e.idx, Len(e.block)>>),
                 StoreWrite(e, p, e.block, ov))

\* flushCurrentBlock seeking to blockSize * idx, the overhead of the blocks before forgotten
flushCurrentBlock_noOverhead(e, bs, ov) ==
    IF e.block = NilBlock \/ e.idx < 0 THEN [e |-> e, err |-> "nil"]
    ELSE flushSeeked(Called(e, "seek", <<"seek", bs * e.idx>>),
                     StoreSeek(e, bs * e.idx, SeekStart).pos, ov)

\* flushCurrentBlock leaving out the write of a block the store already holds
flushCurrentBlock_cleanSkipped(e, bs, ov) ==
    IF e.block = NilBlock \/ e.idx < 0 THEN [e |-> e, err |-> "nil"]
    ELSE IF Slice(e.store, (bs + ov) * e.idx,
                  Min(Len(e.store), (bs + ov) * e.idx + ov + Len(e.block)))
                = SealedBlock(ov, e.block)
         THEN [e |-> e, err |-> "nil"]
    ELSE flushSeeked(Called(e, "seek", <<"seek", (bs + ov) * e.idx>>),
                     StoreSeek(e, (bs + ov) * e.idx, SeekStart).pos, ov)

\* the result of the store's Seek is not looked at
flushCurrentBlock(e, bs, ov) ==
    IF e.block = NilBlock \/ e.idx < 0 THEN [e |-> e, err |-> "nil"]
    ELSE flushSeeked(Called(e, "seek", <<"seek", (bs + ov) * e.idx>>),
                     StoreSeek(e, (bs + ov) * e.idx, SeekStart).pos, ov)

\* a pass of Write after the flush returned f with n bytes of p written
writeFlushed(f, n) ==
    IF f.err # "nil" THEN [e |-> f.e, n |-> n, err |-> "Error flushing block", ret |-> TRUE]
    ELSE [e |-> f.e, n |-> n, err |-> "nil", ret |-> FALSE]

\* a pass of Write after mergeBlocks returned m
writeMerged(e, m, n, bs, ov) ==
    writeFlushed(flushCurrentBlock(
                     Logged([e EXCEPT !.index = e.index + m.n, !.block = m.block],
                            <<"merge", position(e, bs).offset, m.n, BlockLen(e.block),
                              Len(m.block), e.idx>>),
                     bs, ov),
                 n + m.n)

\* a pass of Write after loadBlock returned l
writeLoaded(l, p, n, bs, ov) ==
    IF l.err # "nil"
    THEN [e |-> l.e, n |-> n, err |-> "Error reading next block", ret |-> TRUE]
    ELSE IF position(l.e, bs).offset < 0 \/ position(l.e, bs).offset > BlockLen(l.e.block)
         THEN [e |-> l.e, n |-> n, err |-> "Invalid offset", ret |-> TRUE]
    ELSE writeMerged(l.e,
                     mergeBlocks(BlockBytes(l.e.block), Slice(p, n, Len(p)),
                                 position(l.e, bs).offset, bs),
                     n, bs, ov)

\* one pass of the loop of Write, entered with n bytes of p already written;
\* ret tells that the pass returned from Write
writePass(e, p, n, bs, ov) ==
    writeLoaded(loadBlock(Logged(e, <<"wpass", n, Len(p) - n, e.index>>), bs, ov),
                p, n, bs, ov)

RECURSIVE WriteLoop(_, _, _, _, _)
WriteNext(w, p, bs, ov) ==
    IF w.ret THEN [e |-> w.e, n |-> w.n, err |-> w.err]
    ELSE WriteLoop(w.e, p, w.n, bs, ov)

WriteLoop(e, p, n, bs, ov) ==
    IF Len(p) - n <= 0 THEN [e |-> e, n |-> n, err |-> "nil"]
    ELSE WriteNext(writePass(e, p, n, bs, ov), p, bs, ov)

Write(e, p, bs, ov) == WriteLoop(e, p, 0, bs, ov)

\* readCopied reporting io.EOF whenever the loaded block ended the store
readCopied_eofAlways(e, lerr, copied, m, out) ==
    IF e.eof
    THEN [e |-> [e EXCEPT !.index = e.index + Len(copied)], out |-> out \o copied,
          err |-> "EOF", ret |-> TRUE]
    ELSE [e |-> [e EXCEPT !.index = e.index + Len(copied)], out |-> out \o copied,
          err |-> lerr, ret |-> FALSE]

\* a pass of Read after copy took the bytes copied out of the block
readCopied(e, lerr, copied, m, out) ==
    IF e.eof /\ Len(out) + Len(copied) < m
    THEN [e |-> [e EXCEPT !.index = e.index + Len(copied)], out |-> out \o copied,
          err |-> "EOF", ret |-> TRUE]
    ELSE [e |-> [e EXCEPT !.index = e.index + Len(copied)], out |-> out \o copied,
          err |-> lerr, ret |-> FALSE]

\* a pass of Read after loadBlock returned l; its error is looked at only by the loop
readLoaded(l, m, out, bs) ==
    IF position(l.e, bs).offset < 0 \/ position(l.e, bs).offset > BlockLen(l.e.block)
    THEN [e |-> l.e, out |-> out, err |-> "ErrInvalidSeek", ret |-> TRUE]
    ELSE readCopied(Logged(l.e, <<"copy", position(l.e, bs).offset,
                                  Min(BlockLen(l.e.block), position(l.e, bs).offset + m - Len(out))
                                      - position(l.e, bs).offset,
                                  l.e.idx>>),
                    l.err,
                    Slice(BlockBytes(l.e.block), position(l.e, bs).offset,
                          Min(BlockLen(l.e.block), position(l.e, bs).offset + m - Len(out))),
                    m, out)

\* one pass of the loop of Read into a buffer of length m, entered with out
\* already copied; ret tells that the pass returned from Read
readPass(e, m, out, bs, ov) ==
    readLoaded(loadBlock(Logged(e, <<"rpass", Len(out), m - Len(out), e.index>>), bs, ov),
               m, out, bs)

RECURSIVE ReadLoop(_, _, _, _, _, _)
ReadNext(r, m, bs, ov) ==
    IF r.ret THEN [e |-> r.e, n |-> Len(r.out), err |-> r.err, out |-> r.out]
    ELSE ReadLoop(r.e, m, r.out, r.err, bs, ov)

ReadLoop(e, m, out, err, bs, ov) ==
    IF ~(m - Len(out) > 0 /\ err = "nil")
    THEN [e |-> e, n |-> Len(out), err |-> err, out |-> out]
    ELSE ReadNext(readPass(e, m, out, bs, ov), m, bs, ov)

Read(e, m, bs, ov) == ReadLoop(e, m, <<>>, "nil", bs, ov)

\* seekStored taking the store's physical offset as the cursor
seekStored_rawIndex(e, r, sPos, bs, ov) ==
    [e |-> [e EXCEPT !.pos = r.pos, !.index = r.ret],
     ret |-> r.ret, err |-> r.err, sPos |-> sPos]

\* seekStored dropping the cached block, as resetCurrentBlock would
seekStored_resetBlock(e, r, sPos, bs, ov) ==
    [e |-> [e EXCEPT !.pos = r.pos, !.index = removeOverhead(r.ret, bs, ov),
                     !.block = NilBlock, !.idx = -1],
     ret |-> removeOverhead(r.ret, bs, ov), err |-> r.err, sPos |-> sPos]

\* Seek from the start after the store's Seek returned r
seekStored(e, r, sPos, bs, ov) ==
    [e |-> [e EXCEPT !.pos = r.pos, !.index = removeOverhead(r.ret, bs, ov)],
     ret |-> removeOverhead(r.ret, bs, ov), err |-> r.err, sPos |-> sPos]

\* SeekFromStart without the check of a negative target
SeekFromStart_unchecked(e, offset, bs, ov) ==
    seekStored(Called(e, "seek", <<"seek", addOverhead(offset, bs, ov)>>),
               StoreSeek(e, addOverhead(offset, bs, ov), SeekStart),
               addOverhead(offset, bs, ov), bs, ov)

\* Seek with whence = io.SeekStart
SeekFromStart(e, offset, bs, ov) ==
    IF addOverhead(offset, bs, ov) < 0
    THEN [e |-> e, ret |-> 0, err |-> "ErrInvalidSeek", sPos |-> addOverhead(offset, bs, ov)]
    ELSE seekStored(Called(e, "seek", <<"seek", addOverhead(offset, bs, ov)>>),
                    StoreSeek(e, addOverhead(offset, bs, ov), SeekStart),
                    addOverhead(offset, bs, ov), bs, ov)

\* Seek with whence = io.SeekEnd after the store's Seek to its end returned r
SeekFromEnd(e, r, offset, bs, ov) ==
    IF r.err # "nil"
    THEN [e |-> [e EXCEPT !.pos = r.pos], ret |-> e.index, err |-> r.err, sPos |-> -1]
    ELSE SeekFromStart([e EXCEPT !.pos = r.pos], removeOverhead(r.ret, bs, ov) + offset, bs, ov)

Seek(e, offset, whence, bs, ov) ==
    CASE whence = SeekStart -> SeekFromStart(e, offset, bs, ov)
      [] whence = SeekEnd ->
            SeekFromEnd(Called(e, "seek", <<"seekend", 0>>), StoreSeek(e, 0, SeekEnd),
                        offset, bs, ov)
      [] whence = SeekCurrent -> SeekFromStart(e, e.index + offset, bs, ov)
      [] OTHER -> [e |-> e, ret |-> e.index, err |-> "errUnsupportedSeekMode", sPos |-> -1]

\* ------------------------------------------------- logical view of a store
BadContent == <<-1>>

\* what reading the store block by block from block i on yields
RECURSIVE ReadBackFrom(_, _, _, _)
ReadBackNext(l, rest) ==
    IF l.err # "nil" THEN BadContent
    ELSE IF l.e.eof THEN l.e.block
    ELSE IF rest = BadContent THEN BadContent
    ELSE l.e.block \o rest

ReadBackFrom(st, i, bs, ov) ==
    IF i * (bs + ov) > Len(st) THEN <<>>
    ELSE ReadBackNext(loadBlock([index |-> i * bs, block |-> NilBlock, idx |-> -1,
                                 eof |-> FALSE, store |-> st, pos |-> 0,
                                 fail |-> NoFaults, log |-> <<>>], bs, ov),
                      ReadBackFrom(st, i + 1, bs, ov))

ReadBack(st, bs, ov) == ReadBackFrom(st, 0, bs, ov)

\* the store that holds the logical content c
RECURSIVE SealAll(_, _, _)
SealAll(c, bs, ov) ==
    IF Len(c) = 0 THEN <<>>
    ELSE SealedBlock(ov, Slice(c, 0, Min(bs, Len(c))))
             \o SealAll(Slice(c, Min(bs, Len(c)), Len(c)), bs, ov)

\* ------------------------------------------------- secretbox transformers
NONCE_SIZE == 24
\* secretbox.Overhead, the length of the authentication tag
Overhead == 16

Keys == {1, 2}
\* what rand.Read may put into the nonce
Nonces == {1, 2}

\* a byte of the wire that was changed
CorruptCell == <<3>>
\* what a destination buffer holds before Transform writes to it
JunkCell == <<9>>
JunkByte == 0

NonceCells(n) == Repeat(<<2, n>>, NONCE_SIZE)

\* secretbox.Seal(nil, data, nonce, key): the tag, then the encrypted bytes
Box(data, n, k) ==
    [j \in 1..Overhead |-> <<0, k, n, j>> \o data]
        \o [i \in 1..Len(data) |-> <<1, k, n, i, data[i]>>]

NonceVal(cells) ==
    IF \E n \in Nonces : cells = NonceCells(n)
    THEN CHOOSE n \in Nonces : cells = NonceCells(n)
    ELSE 0

\* the bytes under the encryption of box, whatever its tag
BoxData(box) ==
    [i \in 1..(Len(box) - Overhead) |->
        IF Len(box[Overhead + i]) = 5 /\ box[Overhead + i][1] = 1
        THEN box[Overhead + i][5] ELSE 0]

\* secretbox.Open(nil, box, nonce, key): the plaintext only of what Seal made
\* with this nonce and key
Open(box, nonceCells, k) ==
    IF /\ Len(box) >= Overhead
       /\ NonceVal(nonceCells) # 0
       /\ box = Box(BoxData(box), NonceVal(nonceCells), k)
    THEN [ok |-> TRUE, data |-> BoxData(box)]
    ELSE [ok |-> FALSE, data |-> <<>>]

\* Go's copy(dst, src)
Copy(dst, src) == [i \in 1..Len(dst) |-> IF i <= Len(src) THEN src[i] ELSE dst[i]]

\* Encrypt after the block data was taken off the buffer
encSealed(data, dst, nsrc, n, k) ==
    [nDst |-> NONCE_SIZE + Len(data) + Overhead, nSrc |-> nsrc, err |-> "nil",
     dst |-> Copy(dst, NonceCells(n) \o Box(data, n, k)), buf |-> <<>>]

\* encBuffered losing the buffer when the destination is too short
encBuffered_dropOnShortDst(acc, dst, nsrc, atEnd, n, bs, k) ==
    IF Len(acc) < bs /\ ~atEnd
    THEN [nDst |-> 0, nSrc |-> nsrc, err |-> "ErrShortSrc", dst |-> dst, buf |-> acc]
    ELSE IF Len(dst) < NONCE_SIZE + Overhead + bs
         THEN [nDst |-> 0, nSrc |-> nsrc, err |-> "ErrShortDst", dst |-> dst, buf |-> <<>>]
    ELSE encSealed(Slice(acc, 0, Min(bs, Len(acc))), dst, nsrc, n, k)

\* Encrypt after src was appended to the buffer, which now holds acc
encBuffered(acc, dst, nsrc, atEnd, n, bs, k) ==
    IF Len(acc) < bs /\ ~atEnd
    THEN [nDst |-> 0, nSrc |-> nsrc, err |-> "ErrShortSrc", dst |-> dst, buf |-> acc]
    ELSE IF Len(dst) < NONCE_SIZE + Overhead + bs
         THEN [nDst |-> 0, nSrc |-> nsrc, err |-> "ErrShortDst", dst |-> dst, buf |-> acc]
    ELSE encSealed(Slice(acc, 0, Min(bs, Len(acc))), dst, nsrc, n, k)

\* secretboxEncryptTransformer.Transform; n is the nonce rand.Read draws
EncryptTransform(buf, dst, src, atEnd, n, bs, k) ==
    encBuffered(buf \o src, dst, Len(src), atEnd, n, bs, k)

\* Decrypt after secretbox.Open returned o
decOpened(o, dst, nsrc) ==
    IF o.ok
    THEN [nDst |-> Len(o.data), nSrc |-> nsrc, err |-> "nil", dst |-> Copy(dst, o.data),
          buf |-> <<>>]
    ELSE [nDst |-> 0, nSrc |-> nsrc, err |-> "errDecrypt", dst |-> dst, buf |-> <<>>]

\* the ciphertext Decrypt takes off a buffer holding acc
CipherOf(acc, bs) ==
    Slice(acc, NONCE_SIZE, NONCE_SIZE + Min(bs + Overhead, Len(acc) - NONCE_SIZE))

\* decBuffered handing out the decrypted bytes whatever the tag
decBuffered_noAuth(acc, dst, nsrc, atEnd, bs, k) ==
    IF Len(acc) < NONCE_SIZE + Overhead + bs /\ ~atEnd
    THEN [nDst |-> 0, nSrc |-> nsrc, err |-> "ErrShortSrc", dst |-> dst, buf |-> acc]
    ELSE IF Min(bs + Overhead, Len(acc) - NONCE_SIZE) <= 0
         THEN [nDst |-> 0, nSrc |-> nsrc, err |-> "nil", dst |-> dst, buf |-> acc]
    ELSE IF Len(dst) < bs
         THEN [nDst |-> 0, nSrc |-> nsrc, err |-> "ErrShortDst", dst |-> dst, buf |-> acc]
    ELSE decOpened([ok |-> TRUE, data |-> BoxData(CipherOf(acc, bs))], dst, nsrc)

\* Decrypt after src was appended to the buffer, which now holds acc
decBuffered(acc, dst, nsrc, atEnd, bs, k) ==
    IF Len(acc) < NONCE_SIZE + Overhead + bs /\ ~atEnd
    THEN [nDst |-> 0, nSrc |-> nsrc, err |-> "ErrShortSrc", dst |-> dst, buf |-> acc]
    ELSE IF Min(bs + Overhead, Len(acc) - NONCE_SIZE) <= 0
         THEN [nDst |-> 0, nSrc |-> nsrc, err |-> "nil", dst |-> dst, buf |-> acc]
    ELSE IF Len(dst) < bs
         THEN [nDst |-> 0, nSrc |-> nsrc, err |-> "ErrShortDst", dst |-> dst, buf |-> acc]
    ELSE decOpened(Open(CipherOf(acc, bs), Slice(acc, 0, NONCE_SIZE), k), dst, nsrc)

\* secretboxDecryptTransformer.Transform
DecryptTransform(buf, dst, src, atEnd, bs, k) ==
    decBuffered(buf \o src, dst, Len(src), atEnd, bs, k)

\* a transformer: its direction, key, block size and the nonce it will draw
Transformer(kind, k, bs, n) == [kind |-> kind, key |-> k, bs |-> bs, nonce |-> n]

Transform(t, buf, dst, src, atEnd) ==
    IF t.kind = "encrypt"
    THEN EncryptTransform(buf, dst, src, atEnd, t.nonce, t.bs, t.key)
    ELSE DecryptTransform(buf, dst, src, atEnd, t.bs, t.key)

Junk(t) == IF t.kind = "encrypt" THEN JunkCell ELSE JunkByte

\* ------------------------------------------------ the streaming adapter
\* transform.grow: the length of the grown destination
GrowLen(m) == IF m <= 32 THEN 64 ELSE IF m <= 256 THEN 2 * m ELSE m + (m \div 2)

\* transform.doAppend: Transform with atEOF set on all of the source left, the
\* destination grown as long as it is too short
RECURSIVE doAppend(_, _, _, _, _, _)
doAppendNext(t, r, dst, pDst, src, pSrc) ==
    IF r.err # "ErrShortDst"
    THEN [result |-> Slice(dst, 0, pDst) \o Slice(r.dst, 0, r.nDst),
          n |-> pSrc + r.nSrc, err |-> r.err]
    ELSE doAppend(t, r.buf,
                  IF r.nDst = 0
                  THEN Slice(dst, 0, pDst) \o Repeat(Junk(t), GrowLen(Len(dst)) - pDst)
                  ELSE Slice(dst, 0, pDst) \o r.dst,
                  pDst + r.nDst, src, pSrc + r.nSrc)

doAppend(t, buf, dst, pDst, src, pSrc) ==
    doAppendNext(t, Transform(t, buf, Slice(dst, pDst, Len(dst)), Slice(src, pSrc, Len(src)), TRUE),
                 dst, pDst, src, pSrc)

\* transform.Bytes(t, b): t is reset first
TransformBytes(t, b) == doAppend(t, <<>>, Repeat(Junk(t), Len(b)), 0, b, 0)

\* ------------------------------------------ the actions of the transformers
NoTransform == [op |-> "none", acc |-> <<>>, len |-> 0, cap |-> 0, atEOF |-> FALSE,
                nDst |-> 0, nSrc |-> 0, err |-> "nil", dst |-> <<>>,
                ct |-> <<>>, ctErr |-> "nil", out |-> <<>>]

\* the engine is not part of the transformer runs
EngineUnused ==
    /\ blockSize = 1
    /\ blockOverhead = 0
    /\ index = 0
    /\ currentBlock = NilBlock
    /\ currentBlockIdx = -1
    /\ atEOF = FALSE
    /\ store = <<>>
    /\ pos = 0
    /\ last = [op |-> "none", whence |-> 0, off |-> 0, m |-> 0, d |-> <<>>,
               sPos |-> -1, n |-> 0, err |-> "nil", out |-> <<>>]
    /\ pre = [index |-> 0, content |-> <<>>, size |-> 0, seekFail |-> -1]
    /\ content = <<>>
    /\ firstData = NilBlock
    /\ readAcc = NilBlock
    /\ seekFail = -1
    /\ ioLog = <<>>
    /\ ioPre = [index |-> 0, block |-> NilBlock, idx |-> -1, eof |-> FALSE,
                store |-> <<>>, pos |-> 0, fail |-> NoFaults, log |-> <<>>]
    /\ ioErrs = <<>>
    /\ ioFault = FALSE
    /\ closed = FALSE
    /\ multi = NoMulti

\* the transformers are not part of the engine runs
TransformersUnused ==
    /\ trBlockSize = 1
    /\ encKey = 1
    /\ decKey = 1
    /\ encBuffer = <<>>
    /\ decBuffer = <<>>
    /\ plain = <<>>
    /\ given = 0
    /\ wire = <<>>
    /\ tampered = "none"
    /\ fed = 0
    /\ phase = "encrypt"
    /\ trLast = NoTransform

\* NewEncryptTransformer and NewDecryptTransformer: empty buffers; the decrypt
\* transformer has the key of the encrypt transformer or another one
InitTr ==
    /\ EngineUnused
    /\ trBlockSize \in 1..MaxTrBlockSize
    /\ encKey = 1
    /\ decKey \in Keys
    /\ encBuffer = <<>>
    /\ decBuffer = <<>>
    /\ plain \in SeqsUpTo(Bytes, MaxPlain)
    /\ given = 0
    /\ wire = <<>>
    /\ tampered = "none"
    /\ fed = 0
    /\ phase = "encrypt"
    /\ trLast = NoTransform

\* the sizes of destination a caller tries: one byte too short, and long enough
EncryptCaps == {NONCE_SIZE + Overhead + trBlockSize - 1, NONCE_SIZE + Overhead + trBlockSize}

DecryptCaps == {trBlockSize - 1, trBlockSize}

\* Encrypt returned r for the next take bytes of plain
EncryptDone(r, take, cap, atEnd) ==
    /\ encBuffer' = r.buf
    /\ given' = given + r.nSrc
    /\ wire' = wire \o Slice(r.dst, 0, r.nDst)
    /\ trLast' = [NoTransform EXCEPT !.op = "Encrypt",
                     !.acc = encBuffer \o Slice(plain, given, given + take),
                     !.len = take,
                     !.cap = cap, !.atEOF = atEnd, !.nDst = r.nDst, !.nSrc = r.nSrc,
                     !.err = r.err, !.dst = r.dst]
    /\ phase' = IF atEnd /\ r.err = "nil" THEN "wire" ELSE "encrypt"
    /\ UNCHANGED <<trBlockSize, encKey, decKey, decBuffer, plain, tampered, fed>>
    /\ UNCHANGED engineVars

\* a Transform call on the encrypt transformer, up to the one that ends the
\* stream
EncryptCall ==
    /\ phase = "encrypt" /\ trLast.op # "RoundTrip"
    /\ \E take \in 0..(Len(plain) - given), cap \in EncryptCaps, atEnd \in BOOLEAN,
          n \in Nonces :
        /\ atEnd => take = Len(plain) - given
        /\ ~atEnd => take > 0
        /\ EncryptDone(EncryptTransform(encBuffer, Repeat(JunkCell, cap),
                                        Slice(plain, given, given + take), atEnd, n,
                                        trBlockSize, encKey),
                       take, cap, atEnd)

\* one byte of the nonce, of the tag or of the encrypted bytes of the first
\* block changes, or the last byte of the wire is lost, or the wire is cut
\* behind the first nonce or inside the first tag
Tamper ==
    /\ phase = "wire" /\ tampered = "none" /\ Len(wire) > NONCE_SIZE + Overhead
    /\ \E kind \in {"nonce", "tag", "ciphertext", "truncated", "cutAfterNonce",
                     "cutInTag"} :
        /\ tampered' = kind
        /\ wire' = CASE kind = "nonce" -> [wire EXCEPT ![1] = CorruptCell]
                     [] kind = "tag" -> [wire EXCEPT ![NONCE_SIZE + 1] = CorruptCell]
                     [] kind = "ciphertext" ->
                            [wire EXCEPT ![NONCE_SIZE + Overhead + 1] = CorruptCell]
                     [] kind = "cutAfterNonce" -> Slice(wire, 0, NONCE_SIZE)
                     [] kind = "cutInTag" -> Slice(wire, 0, NONCE_SIZE + 1)
                     [] OTHER -> Slice(wire, 0, Len(wire) - 1)
    /\ trLast' = NoTransform
    /\ UNCHANGED <<trBlockSize, encKey, decKey, encBuffer, decBuffer, plain, given, fed,
                   phase>>
    /\ UNCHANGED engineVars

\* Decrypt returned r for the next take bytes of the wire
DecryptDone(r, take, cap, atEnd) ==
    /\ decBuffer' = r.buf
    /\ fed' = fed + r.nSrc
    /\ trLast' = [NoTransform EXCEPT !.op = "Decrypt",
                     !.acc = decBuffer \o Slice(wire, fed, fed + take),
                     !.len = take,
                     !.cap = cap, !.atEOF = atEnd, !.nDst = r.nDst, !.nSrc = r.nSrc,
                     !.err = r.err, !.dst = r.dst]
    /\ phase' = IF atEnd /\ r.err # "ErrShortDst" THEN "done" ELSE "decrypt"
    /\ UNCHANGED <<trBlockSize, encKey, decKey, encBuffer, plain, given, wire, tampered>>
    /\ UNCHANGED engineVars

\* a Transform call on the decrypt transformer, up to the one that ends the
\* stream; the wire comes all at once, or its first NONCE_SIZE bytes come first
DecryptCall ==
    /\ phase \in {"wire", "decrypt"}
    /\ \E take \in {IF fed = 0 THEN Min(NONCE_SIZE, Len(wire)) ELSE Len(wire) - fed,
                      Len(wire) - fed},
          cap \in DecryptCaps, atEnd \in BOOLEAN :
        /\ atEnd => take = Len(wire) - fed
        /\ ~atEnd => take > 0
        /\ DecryptDone(DecryptTransform(decBuffer, Repeat(JunkByte, cap),
                                        Slice(wire, fed, fed + take), atEnd,
                                        trBlockSize, decKey),
                       take, cap, atEnd)

\* the decrypting half of TestEncryptTransformer, started with the result enc
\* of the encrypting half
RoundTripDone(enc, dec) ==
    /\ trLast' = [NoTransform EXCEPT !.op = "RoundTrip", !.ct = enc.result,
                     !.ctErr = enc.err, !.out = dec.result, !.err = dec.err,
                     !.nSrc = enc.n, !.nDst = Len(dec.result)]
    /\ UNCHANGED <<trBlockSize, encKey, decKey, encBuffer, decBuffer, plain, given, wire,
                   tampered, fed, phase>>
    /\ UNCHANGED engineVars

RoundTripEncrypted(enc) ==
    RoundTripDone(enc, TransformBytes(Transformer("decrypt", encKey, trBlockSize, 0),
                                      enc.result))

\* TestEncryptTransformer for the plaintext plain: transform.Bytes with a new
\* encrypt transformer, then with a new decrypt transformer of the same key
RoundTrip ==
    /\ trLast.op = "none" /\ given = 0 /\ wire = <<>>
    /\ \E n \in Nonces :
        RoundTripEncrypted(TransformBytes(Transformer("encrypt", encKey, trBlockSize, n),
                                          plain))

NextTr == EncryptCall \/ Tamper \/ DecryptCall \/ RoundTrip

SpecTr == InitTr /\ [][NextTr]_vars

\* -------------------------------------------------------------- the actions
NoCall == [op |-> "none", whence |-> 0, off |-> 0, m |-> 0, d |-> <<>>,
           sPos |-> -1, n |-> 0, err |-> "nil", out |-> <<>>]

NoSnapshot == [index |-> 0, content |-> <<>>, size |-> 0, seekFail |-> -1]

Snapshot == [index |-> index, content |-> content, size |-> Len(store), seekFail |-> seekFail]

\* the engine as NewReadWriteSeeker makes it, on an empty store
NoEngine == [index |-> 0, block |-> NilBlock, idx |-> -1, eof |-> FALSE,
             store |-> <<>>, pos |-> 0, fail |-> NoFaults, log |-> <<>>]

\* no call is in progress; the caller may make the next one
Idle == last.op = "none"

\* callers work on streams that read back without an error; a stream that was
\* written from empty is sought and read whatever it reads back as
WellFormed == content # BadContent

Init ==
    /\ blockSize \in 1..MaxBlockSize
    /\ blockOverhead \in 0..MaxOverhead
    /\ index = 0
    /\ currentBlock = NilBlock
    /\ currentBlockIdx = -1
    /\ atEOF = FALSE
    /\ content \in SeqsUpTo(Bytes, MaxInit)
    /\ store = SealAll(content, blockSize, blockOverhead)
    /\ pos = 0
    /\ last = NoCall
    /\ pre = NoSnapshot
    /\ firstData = NilBlock
    /\ readAcc = NilBlock
    /\ seekFail = -1
    /\ ioLog = <<>>
    /\ ioPre = NoEngine
    /\ ioErrs = <<>>
    /\ ioFault = FALSE
    /\ closed = FALSE
    /\ multi = NoMulti
    /\ TransformersUnused

Install(e) ==
    /\ index' = e.index
    /\ currentBlock' = e.block
    /\ currentBlockIdx' = e.idx
    /\ atEOF' = e.eof
    /\ store' = e.store
    /\ pos' = e.pos
    /\ UNCHANGED <<blockSize, blockOverhead, multi>>
    /\ UNCHANGED trVars

\* Seek returned r
SeekDone(r, offset, whence) ==
    /\ r.e.index <= MaxOffset
    /\ Install(r.e)
    /\ last' = [NoCall EXCEPT !.op = "Seek", !.whence = whence, !.off = offset,
                              !.sPos = r.sPos, !.n = r.ret, !.err = r.err]
    /\ pre' = Snapshot
    /\ readAcc' = IF whence = SeekStart /\ offset = 0 /\ r.err = "nil" THEN <<>> ELSE NilBlock
    /\ seekFail' = IF r.err = "ErrInvalidSeek" THEN index ELSE -1
    /\ UNCHANGED <<firstData, content>>

DoSeek(offset, whence) ==
    /\ SeekDone(Seek(Engine, offset, whence, blockSize, blockOverhead), offset, whence)
    /\ UNCHANGED ioVars

\* Read returned r
ReadDone(r, m) ==
    /\ Install(r.e)
    /\ last' = [NoCall EXCEPT !.op = "Read", !.m = m, !.n = r.n, !.err = r.err, !.out = r.out]
    /\ pre' = Snapshot
    /\ readAcc' = IF readAcc = NilBlock THEN NilBlock ELSE readAcc \o r.out
    /\ seekFail' = -1
    /\ UNCHANGED <<firstData, content>>

DoRead(m) ==
    /\ ReadDone(Read(Engine, m, blockSize, blockOverhead), m)
    /\ UNCHANGED ioVars

\* Write returned r
WriteDone(r, d) ==
    /\ Install(r.e)
    /\ last' = [NoCall EXCEPT !.op = "Write", !.d = d, !.n = r.n, !.err = r.err]
    /\ pre' = Snapshot
    /\ content' = ReadBack(r.e.store, blockSize, blockOverhead)
    /\ firstData' = IF Len(store) = 0 /\ index = 0 THEN d ELSE NilBlock
    /\ readAcc' = NilBlock
    /\ seekFail' = -1

DoWrite(d) ==
    /\ index + Len(d) <= MaxOffset
    /\ WriteDone(Write(Engine, d, blockSize, blockOverhead), d)
    /\ UNCHANGED ioVars

SeekAction ==
    /\ Idle
    /\ WellFormed \/ firstData # NilBlock
    /\ \E offset \in -2..MaxOffset, whence \in 0..3 :
        /\ whence = 3 => offset = 0
        /\ DoSeek(offset, whence)

ReadAction ==
    /\ Idle
    /\ WellFormed \/ firstData # NilBlock
    /\ \E m \in 1..(MaxData + 1) : DoRead(m)

WriteAction ==
    /\ Idle
    /\ WellFormed
    /\ \E d \in SeqsUpTo(Bytes, MaxData) : DoWrite(d)

\* the call returns: the caller has taken its result
Return ==
    /\ ~Idle
    /\ last' = NoCall
    /\ pre' = NoSnapshot
    /\ UNCHANGED <<blockSize, blockOverhead, index, currentBlock, currentBlockIdx, atEOF,
                   store, pos, content, firstData, readAcc, seekFail, multi>>
    /\ UNCHANGED ioVars
    /\ UNCHANGED trVars

Next == SeekAction \/ ReadAction \/ WriteAction \/ Return

Spec == Init /\ [][Next]_vars

\* ------------------------------------- the file wrapper and failing stores
\* the lines of the message of an error
Lines(err) == IF err = "nil" THEN <<>> ELSE <<err>>

\* combineErrors on errors given by their lines: the lines of the errors that
\* are not nil, joined; no line is the nil error
combineErrors(a, b) == a \o b

\* file.Sync after flushCurrentBlock returned f; syncErr is what backing.Sync returns
fileSyncFlushed(f, syncErr) ==
    [e |-> Logged(f.e, <<"sync", syncErr>>),
     errs |-> combineErrors(Lines(f.err), Lines(syncErr))]

fileSync(e, syncErr, bs, ov) == fileSyncFlushed(flushCurrentBlock(e, bs, ov), syncErr)

\* fileCloseSynced returning the error of backing.Close alone when there is one
fileCloseSynced_closeErrorOnly(s, closeErr) ==
    [e |-> Logged(s.e, <<"close", closeErr>>),
     errs |-> IF closeErr # "nil" THEN Lines(closeErr) ELSE s.errs]

\* file.Close after file.Sync returned s; closeErr is what backing.Close returns
fileCloseSynced(s, closeErr) ==
    [e |-> Logged(s.e, <<"close", closeErr>>), errs |-> combineErrors(s.errs, Lines(closeErr))]

fileClose(e, syncErr, closeErr, bs, ov) ==
    fileCloseSynced(fileSync(e, syncErr, bs, ov), closeErr)

\* at most one call on the store fails, among the first MaxFaultAt of its kind
Schedules ==
    {NoFaults} \cup {[NoFaults EXCEPT ![k] = j] : k \in FaultKinds, j \in 1..MaxFaultAt}

Fired(log) == \E i \in 1..Len(log) : log[i][1] = "fault"

\* what a call that made the engine e leaves behind for the caller to see
IODone(e, errs) ==
    /\ ioLog' = e.log
    /\ ioPre' = Engine
    /\ ioErrs' = errs
    /\ ioFault' = Fired(e.log)

IOSeekDone(r, offset, whence) ==
    /\ r.e.index <= MaxOffset
    /\ Install(r.e)
    /\ last' = [NoCall EXCEPT !.op = "Seek", !.whence = whence, !.off = offset,
                              !.sPos = r.sPos, !.n = r.ret, !.err = r.err]
    /\ pre' = Snapshot
    /\ IODone(r.e, <<>>)
    /\ UNCHANGED <<content, firstData, readAcc, seekFail, closed>>

IOReadDone(r, m) ==
    /\ Install(r.e)
    /\ last' = [NoCall EXCEPT !.op = "Read", !.m = m, !.n = r.n, !.err = r.err, !.out = r.out]
    /\ pre' = Snapshot
    /\ IODone(r.e, <<>>)
    /\ UNCHANGED <<content, firstData, readAcc, seekFail, closed>>

IOWriteDone(r, d) ==
    /\ Install(r.e)
    /\ last' = [NoCall EXCEPT !.op = "Write", !.d = d, !.n = r.n, !.err = r.err]
    /\ pre' = Snapshot
    /\ content' = ReadBack(r.e.store, blockSize, blockOverhead)
    /\ IODone(r.e, <<>>)
    /\ UNCHANGED <<firstData, readAcc, seekFail, closed>>

\* Sync or Close returned r
IOFileDone(r, op) ==
    /\ Install(r.e)
    /\ last' = [NoCall EXCEPT !.op = op, !.err = IF r.errs = <<>> THEN "nil" ELSE "combined"]
    /\ pre' = Snapshot
    /\ content' = ReadBack(r.e.store, blockSize, blockOverhead)
    /\ IODone(r.e, r.errs)
    /\ closed' = (closed \/ op = "Close")
    /\ UNCHANGED <<firstData, readAcc, seekFail>>

\* the caller may make a call: the file is open and no call has failed
Usable == Idle /\ WellFormed /\ ~closed /\ ~ioFault

IOSeek ==
    /\ Usable
    /\ \E offset \in -1..MaxOffset, whence \in 0..3, f \in Schedules :
        /\ whence = 3 => offset = 0
        /\ whence \in {SeekCurrent, SeekEnd} => offset <= 1
        /\ f["read"] = 0 /\ f["write"] = 0
        /\ f["seek"] = 2 => whence = SeekEnd
        /\ IOSeekDone(Seek([Engine EXCEPT !.fail = f], offset, whence, blockSize,
                            blockOverhead),
                       offset, whence)

IORead ==
    /\ Usable
    /\ \E m \in 1..(MaxData + 1), f \in Schedules :
        /\ f["write"] = 0
        /\ IOReadDone(Read([Engine EXCEPT !.fail = f], m, blockSize, blockOverhead), m)

IOWrite ==
    /\ Usable
    /\ \E d \in SeqsUpTo(Bytes, MaxData), f \in Schedules :
        /\ index + Len(d) <= MaxOffset
        /\ IOWriteDone(Write([Engine EXCEPT !.fail = f], d, blockSize, blockOverhead), d)

IOSync ==
    /\ Usable
    /\ \E f \in Schedules, syncErr \in {"nil", "sync failed"} :
        /\ f["read"] = 0
        /\ IOFileDone(fileSync([Engine EXCEPT !.fail = f], syncErr, blockSize,
                                blockOverhead),
                       "Sync")

IOClose ==
    /\ Usable
    /\ \E f \in Schedules, syncErr \in {"nil", "sync failed"},
          closeErr \in {"nil", "close failed"} :
        /\ f["read"] = 0
        /\ IOFileDone(fileClose([Engine EXCEPT !.fail = f], syncErr, closeErr, blockSize,
                                 blockOverhead),
                       "Close")

\* the call returns: the caller has taken its result and may make another call
IOReturn ==
    /\ ~Idle /\ ~closed /\ ~ioFault
    /\ last' = NoCall
    /\ pre' = NoSnapshot
    /\ ioLog' = <<>>
    /\ ioPre' = NoEngine
    /\ ioErrs' = <<>>
    /\ UNCHANGED <<blockSize, blockOverhead, index, currentBlock, currentBlockIdx, atEOF,
                   store, pos, content, firstData, readAcc, seekFail, ioFault, closed,
                   multi>>
    /\ UNCHANGED trVars

NextIO == IOSeek \/ IORead \/ IOWrite \/ IOSync \/ IOClose \/ IOReturn

SpecIO == Init /\ [][NextIO]_vars

\* a handle that is only read: Seek, Read (ReadAt is the two in a row), then
\* Sync and Close
NextRO == IOSeek \/ IORead \/ IOSync \/ IOClose \/ IOReturn

SpecRO == Init /\ [][NextRO]_vars

\* ------------------------------------------ two engines on the same store
\* the engine of handle h with the store as it is now
Attached(h) == [multi.hs[h].e EXCEPT !.store = store, !.pos = pos]

\* what an engine keeps of its own between its steps
Detached(e) == [e EXCEPT !.store = <<>>, !.pos = 0, !.log = <<>>]

\* the bytes handle h writes
HandleData(h, len) == Repeat(h, len)

MultiFrame ==
    /\ UNCHANGED <<blockSize, blockOverhead, index, currentBlock, currentBlockIdx, atEOF,
                   last, pre, firstData, readAcc, seekFail>>
    /\ UNCHANGED ioVars
    /\ UNCHANGED trVars

\* the Seek of handle h returned r; its Write(d) starts
HandleSeeked(h, r, d) ==
    /\ r.err = "nil"
    /\ multi' = [multi EXCEPT !.hs[h] = [@ EXCEPT !.pc = "load", !.e = Detached(r.e),
                                                  !.d = d],
                              !.who = h, !.act = "seek"]
    /\ pos' = r.e.pos
    /\ UNCHANGED <<store, content>>
    /\ MultiFrame

\* handle h seeks to where it will write and calls Write
HandleBegin(h) ==
    /\ multi.hs[h].pc = "new"
    /\ \E off \in 0..(MaxOffset - 1), len \in 1..MaxMultiData :
        /\ off + len <= MaxOffset
        /\ HandleSeeked(h, Seek(Attached(h), off, SeekStart, blockSize, blockOverhead),
                        HandleData(h, len))

\* loadBlock of handle h returned l
HandleLoaded(h, l) ==
    /\ multi' = [multi EXCEPT !.hs[h] = [@ EXCEPT !.pc = "merge", !.e = Detached(l.e),
                                                  !.lerr = l.err, !.loaded = l.e.block,
                                                  !.at = l.e.index],
                              !.who = h, !.act = "load"]
    /\ pos' = l.e.pos
    /\ UNCHANGED <<store, content>>
    /\ MultiFrame

\* the first half of a pass of Write of handle h: the load of the block
HandleLoad(h) ==
    /\ multi.hs[h].pc = "load"
    /\ HandleLoaded(h, loadBlock(Attached(h), blockSize, blockOverhead))

\* the second half of a pass loading the block once more, from the store as it is now
HandleFlush_reloaded(e, lerr, p, n, bs, ov) == writePass(e, p, n, bs, ov)

\* the second half of a pass of Write, loadBlock having returned lerr: the
\* offset check, the merge into the block as loaded and the flush
HandleFlush(e, lerr, p, n, bs, ov) == writeLoaded([e |-> e, err |-> lerr], p, n, bs, ov)

\* the second half of the pass of handle h returned w
HandleFlushed(h, w) ==
    /\ multi' = [multi EXCEPT !.hs[h] = [@ EXCEPT
                                  !.pc = IF w.ret \/ Len(multi.hs[h].d) - w.n <= 0
                                         THEN "done" ELSE "load",
                                  !.e = Detached(w.e), !.n = w.n, !.err = w.err],
                              !.who = h, !.act = "flush"]
    /\ store' = w.e.store
    /\ pos' = w.e.pos
    /\ content' = ReadBack(w.e.store, blockSize, blockOverhead)
    /\ MultiFrame

HandleMergeFlush(h) ==
    /\ multi.hs[h].pc = "merge"
    /\ HandleFlushed(h, HandleFlush(Attached(h), multi.hs[h].lerr, multi.hs[h].d,
                                    multi.hs[h].n, blockSize, blockOverhead))

\* any handle takes its next step: nothing orders the steps of the two
NextMulti == \E h \in Handles : HandleBegin(h) \/ HandleLoad(h) \/ HandleMergeFlush(h)

SpecMulti == Init /\ [][NextMulti]_vars

\* ------------------------------------------------------------ the claims
\* c with d written over it at offset o
Splice(c, o, d) == Slice(c, 0, o) \o d \o Slice(c, o + Len(d), Len(c))

\* the logical offset the last Seek asked for
SeekTarget ==
    CASE last.whence = SeekStart -> last.off
      [] last.whence = SeekCurrent -> pre.index + last.off
      [] OTHER -> Len(pre.content) + last.off

CeilDiv(a, b) == (a + b - 1) \div b

\* C1: a Write of d into an empty stream at cursor 0 returns (len(d), nil), and
\* the Reads that follow a Seek(Start, 0) return the bytes of d in order, never a
\* hard error, and have returned exactly d when end-of-stream is reported.
C1_WriteThenReadBack ==
    /\ (last.op = "Write" /\ pre.size = 0 /\ pre.index = 0) =>
           (last.n = Len(last.d) /\ last.err = "nil")
    /\ (last.op = "Read" /\ firstData # NilBlock /\ readAcc # NilBlock) =>
           /\ last.err \in {"nil", "EOF"}
           /\ readAcc = Slice(firstData, 0, Len(readAcc))
           /\ last.err = "nil" => last.n = last.m
           /\ last.err = "EOF" => readAcc = firstData

C1_Witness ==
    /\ last.op = "Read" /\ last.err = "EOF"
    /\ firstData # NilBlock /\ readAcc = firstData
    /\ Len(firstData) = 3 /\ firstData[1] # firstData[2]
    /\ blockSize = 2 /\ blockOverhead = 1

\* C2: a successful Write of d at a cursor o inside or at the end of the content
\* C leaves the content C[0..o) ++ d ++ C[o+len(d)..L): no byte outside the
\* written range changes.
C2_OverwritePreserves ==
    (last.op = "Write" /\ last.err = "nil" /\ pre.content # BadContent
        /\ pre.index <= Len(pre.content)) =>
        content = Splice(pre.content, pre.index, last.d)

C2_Witness ==
    /\ last.op = "Write" /\ last.err = "nil"
    /\ blockSize = 2 /\ blockOverhead = 1
    /\ Len(pre.content) = 3 /\ pre.index = 1 /\ Len(last.d) = 1
    /\ last.d[1] # pre.content[2]
    /\ content = <<pre.content[1], last.d[1], pre.content[3]>>

\* C3: a Read of m > 0 bytes at cursor c <= L returns the n = min(m, L - c) bytes
\* content[c..c+n), advances the cursor by n, reports io.EOF exactly when n < m
\* and no error exactly when n = m.
C3_ReadReturnsContent ==
    (last.op = "Read" /\ pre.content # BadContent /\ pre.index <= Len(pre.content)) =>
        LET n == Min(last.m, Len(pre.content) - pre.index)
        IN /\ last.n = n
           /\ last.out = Slice(pre.content, pre.index, pre.index + n)
           /\ index = pre.index + n
           /\ (last.err = "EOF") <=> (n < last.m)
           /\ (last.err = "nil") <=> (n = last.m)

C3_Witness ==
    /\ last.op = "Read" /\ last.err = "EOF"
    /\ blockSize = 1 /\ blockOverhead = 1
    /\ pre.index = 1 /\ last.n = 2 /\ last.m = 3
    /\ last.out = Slice(pre.content, 1, 3)

\* C4: a Seek whose target is negative fails with ErrInvalidSeek and keeps the
\* cursor, in each of the three modes; the Read or Write that follows works at
\* the cursor from before the failed Seek.
C4_NegativeSeekFails ==
    /\ (last.op = "Seek" /\ last.whence \in {SeekStart, SeekCurrent, SeekEnd}
            /\ pre.content # BadContent /\ SeekTarget < 0) =>
           (last.err = "ErrInvalidSeek" /\ index = pre.index)
    /\ (last.op = "Read" /\ pre.seekFail >= 0) =>
           last.out = Slice(pre.content, pre.seekFail, pre.seekFail + last.n)
    /\ (last.op = "Write" /\ pre.seekFail >= 0 /\ pre.seekFail <= Len(pre.content)) =>
           (last.err = "nil" /\ content = Splice(pre.content, pre.seekFail, last.d))

C4_Witness ==
    /\ last.op = "Write" /\ pre.seekFail = 1 /\ Len(last.d) = 1
    /\ Len(pre.content) = 2 /\ last.d[1] # pre.content[2]
    /\ content = <<pre.content[1], last.d[1]>>

\* C5: on a well-formed stream of logical length L, Seek(End, k) with k >= 0
\* returns L + k without an error and leaves the cursor there, whatever the
\* cursor was.
C5_SeekEnd ==
    (last.op = "Seek" /\ last.whence = SeekEnd /\ last.off >= 0
        /\ pre.content # BadContent) =>
        /\ last.err = "nil"
        /\ last.n = Len(pre.content) + last.off
        /\ index = Len(pre.content) + last.off

C5_Witness ==
    /\ last.op = "Seek" /\ last.whence = SeekEnd /\ last.off = 0
    /\ blockSize = 2 /\ blockOverhead = 1
    /\ Len(pre.content) = 3 /\ pre.index = 1 /\ last.n = 3

\* C6: Seek(Start, off) with off >= 0 returns off, and Seek(Current, d) with
\* Cursor + d >= 0 returns Cursor + d; the cursor is the returned value.
C6_SeekReturnsTarget ==
    (last.op = "Seek" /\ last.whence \in {SeekStart, SeekCurrent} /\ SeekTarget >= 0) =>
        /\ last.err = "nil"
        /\ last.n = SeekTarget
        /\ index = SeekTarget

C6_Witness ==
    /\ last.op = "Seek" /\ last.whence = SeekCurrent
    /\ blockSize = 2 /\ blockOverhead = 1
    /\ pre.index = 2 /\ last.off = 1 /\ last.n = 3

\* C7: removeOverhead(addOverhead(off)) = off for every block-aligned off >= 0.
C7_AlignedRoundTrip ==
    \A off \in 0..(2 * MaxOffset) :
        off % blockSize = 0 =>
            removeOverhead(addOverhead(off, blockSize, blockOverhead),
                           blockSize, blockOverhead) = off

C7_Witness ==
    /\ last.op = "Seek" /\ last.whence = SeekStart /\ last.off = 2
    /\ blockSize = 2 /\ blockOverhead = 1
    /\ last.sPos = 3 /\ last.n = 2

\* C8 as stated: Seek(Start, off) seeks the store to off + (off / B) * V with
\* the division rounded down.
C8_TruncatingTarget ==
    (last.op = "Seek" /\ last.whence = SeekStart /\ last.off >= 0) =>
        /\ last.sPos = last.off + (last.off \div blockSize) * blockOverhead
        /\ pos = last.sPos

\* C8 amended: Seek(Start, off) seeks the store to off + ceil(off / B) * V; the
\* block count is rounded up when off is not a multiple of B, as in
\* removeOverhead.
C8_CeilingTarget ==
    (last.op = "Seek" /\ last.whence = SeekStart /\ last.off >= 0) =>
        /\ last.sPos = last.off + CeilDiv(last.off, blockSize) * blockOverhead
        /\ pos = last.sPos

C8_Witness ==
    /\ last.op = "Seek" /\ last.whence = SeekStart /\ last.off = 3
    /\ blockSize = 2 /\ blockOverhead = 1
    /\ pos = 5

\* the destination the last Transform call was given
FreshDst == Repeat(JunkByte, trLast.cap)

\* the last Decrypt call came to secretbox.Open with what it had accumulated
OpenTried ==
    /\ trLast.op = "Decrypt"
    /\ ~(Len(trLast.acc) < NONCE_SIZE + Overhead + trBlockSize /\ ~trLast.atEOF)
    /\ Len(trLast.acc) > NONCE_SIZE
    /\ trLast.cap >= trBlockSize

\* what the last Decrypt call had accumulated is a nonce and what Seal made
\* with that nonce and the key of the decrypt transformer
Authentic ==
    \E n \in Nonces : \E l \in 0..trBlockSize :
        /\ Len(trLast.acc) >= NONCE_SIZE + Overhead + l
        /\ Slice(trLast.acc, 0, NONCE_SIZE) = NonceCells(n)
        /\ CipherOf(trLast.acc, trBlockSize)
               = Box(BoxData(Slice(trLast.acc, NONCE_SIZE, NONCE_SIZE + Overhead + l)),
                     n, decKey)

\* what the last Decrypt call had accumulated starts with the first block of
\* the wire, and its nonce, tag or encrypted bytes were changed or the key of
\* the decrypt transformer is not the key it was sealed with
Forged ==
    /\ Len(trLast.acc) > NONCE_SIZE + Overhead
    /\ trLast.acc = Slice(wire, 0, Len(trLast.acc))
    /\ tampered \in {"nonce", "tag", "ciphertext"} \/ decKey # encKey

\* C9: a Decrypt call whose accumulated nonce and ciphertext fail authentication
\* (the tag, the ciphertext, the nonce or the key was changed) returns
\* errDecrypt with 0 bytes and leaves the destination as it was; the destination
\* is written only when authentication succeeded, and then with the plaintext.
C9_NoUnauthenticatedPlaintext ==
    trLast.op = "Decrypt" =>
        /\ (OpenTried /\ (~Authentic \/ Forged)) =>
               /\ trLast.err = "errDecrypt"
               /\ trLast.nDst = 0
               /\ trLast.dst = FreshDst
        /\ (trLast.dst # FreshDst \/ trLast.nDst > 0) =>
               /\ OpenTried /\ Authentic /\ trLast.err = "nil"
               /\ trLast.dst = Copy(FreshDst, BoxData(CipherOf(trLast.acc, trBlockSize)))
               /\ trLast.nDst = Len(CipherOf(trLast.acc, trBlockSize)) - Overhead

C9_Witness ==
    /\ OpenTried /\ Forged /\ tampered = "tag" /\ decKey = encKey
    /\ Len(plain) > 0
    /\ trLast.err = "errDecrypt"

\* C10: for every plaintext x, longer than the block size or not, and every
\* key, transform.Bytes with a new encrypt transformer and then transform.Bytes
\* with a new decrypt transformer of the same key and block size give back x.
C10_RoundTripReproduces ==
    trLast.op = "RoundTrip" =>
        /\ trLast.ctErr = "nil"
        /\ trLast.err = "nil"
        /\ trLast.out = plain

\* the round trip of a plaintext of at most one block
C10_RoundTripOfOneBlock ==
    (trLast.op = "RoundTrip" /\ Len(plain) <= trBlockSize) =>
        /\ trLast.ctErr = "nil"
        /\ trLast.err = "nil"
        /\ trLast.out = plain

\* the log of the last call has the entry
InLog(entry) == \E i \in 1..Len(ioLog) : ioLog[i] = entry

\* the log of the last call has an entry of the kind
KindInLog(kind) == \E i \in 1..Len(ioLog) : ioLog[i][1] = kind

\* the engine held a block to flush when the last call started
HadBlock == ioPre.block # NilBlock /\ ioPre.idx >= 0

\* C11: Close always performs the flush step (file.Sync: the write of the
\* cached block, then the store's Sync) and then the close of the store, also
\* when the flush step fails; it returns an error exactly when a step failed,
\* and the error has the lines of every failure, in order.
C11_CloseCombinesErrors ==
    last.op = "Close" =>
        /\ HadBlock => \E i \in 1..Len(ioLog) : ioLog[i][1] = "write" /\ ioLog[i][3] = ioPre.idx
        /\ Len(ioLog) >= 2
        /\ ioLog[Len(ioLog) - 1][1] = "sync"
        /\ ioLog[Len(ioLog)][1] = "close"
        /\ closed
        /\ (last.err # "nil") <=>
               (InLog(<<"fault", "write">>) \/ InLog(<<"sync", "sync failed">>)
                    \/ InLog(<<"close", "close failed">>))
        /\ ioErrs = (IF InLog(<<"fault", "write">>) THEN <<"EIO">> ELSE <<>>)
                      \o (IF InLog(<<"sync", "sync failed">>) THEN <<"sync failed">> ELSE <<>>)
                      \o (IF InLog(<<"close", "close failed">>) THEN <<"close failed">>
                          ELSE <<>>)

C11_Witness ==
    /\ last.op = "Close" /\ HadBlock /\ Len(ioPre.block) > 0
    /\ InLog(<<"fault", "write">>) /\ InLog(<<"close", "close failed">>)
    /\ ioErrs = <<"EIO", "close failed">>

\* C12: a Seek, in every mode and whether it succeeds or fails, leaves the
\* cached block, its index and the EOF flag as they were and makes no Read and
\* no Write on the store: the only calls it makes on the store are Seeks.
C12_SeekFrame ==
    last.op = "Seek" =>
        /\ currentBlock = ioPre.block
        /\ currentBlockIdx = ioPre.idx
        /\ atEOF = ioPre.eof
        /\ store = ioPre.store
        /\ \A i \in 1..Len(ioLog) : ioLog[i][1] \in {"seek", "seekend", "fault"}

C12_Witness ==
    /\ last.op = "Seek" /\ last.err = "nil"
    /\ HadBlock /\ Len(ioPre.block) > 0
    /\ GoDiv(index, blockSize) # currentBlockIdx
    /\ Len(ioLog) > 0

\* a Seek that failed with a cached block in place
C12_WitnessFailed ==
    /\ last.op = "Seek" /\ last.err = "EIO"
    /\ HadBlock /\ Len(ioPre.block) > 0

\* the cells the store holds where block idx of the engine's file belongs
StoredAt(idx, len) ==
    Slice(store, idx * (blockSize + blockOverhead),
          Min(Len(store), idx * (blockSize + blockOverhead) + blockOverhead + len))

\* every merge in the log is followed at once by the Seek and the Write of the
\* flush of the merged block
MergesFlushed ==
    \A i \in 1..Len(ioLog) :
        ioLog[i][1] = "merge" =>
            /\ i + 2 <= Len(ioLog)
            /\ ioLog[i + 1][1] = "seek"
            /\ ioLog[i + 2 + (IF ioLog[i + 2][1] = "fault" THEN 1 ELSE 0)][1] = "write"
            /\ ioLog[i + 2 + (IF ioLog[i + 2][1] = "fault" THEN 1 ELSE 0)][3] = ioLog[i][6]
            /\ ioLog[i + 2 + (IF ioLog[i + 2][1] = "fault" THEN 1 ELSE 0)][4] = ioLog[i][5]

\* the store holds the cached block, sealed, where the block belongs
CachedBlockStored ==
    /\ currentBlock # NilBlock
    /\ currentBlockIdx >= 0
    /\ StoredAt(currentBlockIdx, Len(currentBlock)) = SealedBlock(blockOverhead, currentBlock)

\* C13: Write is write-through: every merge into the cached block is followed
\* by a flush of that block before the next block is loaded, and whenever a
\* Write returns successfully the store's content of the cached block index
\* equals the cached block.
C13_WriteThrough ==
    (last.op = "Write" /\ last.err = "nil" /\ Len(last.d) > 0) =>
        MergesFlushed /\ CachedBlockStored

\* the same for the Writes during which no Seek of the store failed
C13_WriteThroughSeeksDone ==
    (last.op = "Write" /\ last.err = "nil" /\ Len(last.d) > 0
        /\ ~InLog(<<"fault", "seek">>)) =>
        MergesFlushed /\ CachedBlockStored

\* a Write that returned nil although the Seek of its flush failed: the block
\* went to another place of the store
C13_Unflushed ==
    /\ last.op = "Write" /\ last.err = "nil" /\ Len(last.d) > 0
    /\ InLog(<<"fault", "seek">>)
    /\ ~CachedBlockStored

\* the Write logged at place i of log failed
WriteFaulted(log, i) == i < Len(log) /\ log[i + 1] = <<"fault", "write">>

\* the place of the Write of the flush that follows the merge at place i of log
FlushOf(log, i) == i + 2 + (IF log[i + 2][1] = "fault" THEN 1 ELSE 0)

\* the bytes of the input merged in the passes from place i of log on whose
\* flush the store accepted
RECURSIVE FlushedFrom(_, _)
FlushedFrom(log, i) ==
    IF i > Len(log) THEN 0
    ELSE IF log[i][1] = "merge" /\ ~WriteFaulted(log, FlushOf(log, i))
         THEN log[i][3] + FlushedFrom(log, i + 1)
    ELSE FlushedFrom(log, i + 1)

\* C14: when Write fails part-way (a block load or a block flush returns an
\* error), the count n it returns is exactly the number of bytes of the input
\* that have been flushed to the store: no byte counted in n is one whose
\* flush failed.
C14_CountIsFlushed ==
    (last.op = "Write" /\ last.err # "nil") => last.n = FlushedFrom(ioLog, 1)

\* the same for the Writes that fail in the load of a block
C14_CountIsFlushedAtLoad ==
    (last.op = "Write" /\ last.err = "Error reading next block") =>
        last.n = FlushedFrom(ioLog, 1)

\* a Write whose only flush failed: the store is as it was and n counts bytes
C14_CountsUnflushed ==
    /\ last.op = "Write" /\ last.err = "Error flushing block"
    /\ store = ioPre.store
    /\ last.n > 0
    /\ FlushedFrom(ioLog, 1) = 0

\* a Write that failed in a load after a pass that was flushed
C14_LoadFailedAfterFlush ==
    /\ last.op = "Write" /\ last.err = "Error reading next block"
    /\ last.n > 0

\* the physical position of the block that holds the logical offset
BlockStart(offset) == GoDiv(offset, blockSize) * (blockSize + blockOverhead)

\* the block that holds the cursor was the cached block when the last call started
CursorWasCached == HadBlock /\ ioPre.idx = GoDiv(ioPre.index, blockSize)

\* C15 as stated: the engine reads a block from the store only when the block
\* that holds Cursor is not the cached block: a Read that stays inside the
\* cached block makes no Seek and no Read on the store.
C15_CachedBlockNotReloaded ==
    (last.op = "Read" /\ CursorWasCached
        /\ ioPre.index + last.m <= (ioPre.idx + 1) * blockSize) =>
        ~KindInLog("seek") /\ ~KindInLog("read")

\* C15, amended: every pass of Read and of Write loads the block that holds
\* Cursor from the store, the cached block or not: the pass starts with a Seek
\* to the start of that block and, when the Seek succeeds, a Read there.
C15_EveryPassLoads ==
    last.op \in {"Read", "Write"} =>
        \A i \in 1..Len(ioLog) :
            ioLog[i][1] \in {"rpass", "wpass"} =>
                /\ i + 2 <= Len(ioLog)
                /\ ioLog[i + 1] = <<"seek", BlockStart(ioLog[i][4])>>
                /\ \/ ioLog[i + 2] = <<"fault", "seek">>
                   \/ ioLog[i + 2] = <<"read", BlockStart(ioLog[i][4]), 0>>

\* a Read inside the cached block that loaded the block again
C15_Witness ==
    /\ last.op = "Read" /\ last.err = "nil" /\ last.n > 0
    /\ CursorWasCached /\ Len(ioPre.block) > 0
    /\ ioPre.index + last.m <= (ioPre.idx + 1) * blockSize
    /\ InLog(<<"seek", BlockStart(ioPre.index)>>)
    /\ InLog(<<"read", BlockStart(ioPre.index), 0>>)
    /\ currentBlock = ioPre.block

\* the Write logged at place i was made with the store at the start of the
\* block it writes
WritePositioned(i) == ioLog[i][2] = ioLog[i][3] * (blockSize + blockOverhead)

\* a flush, with no block to flush, made no call on the store and succeeded
NothingFlushed ==
    (last.op = "Sync" /\ ~HadBlock) =>
        /\ ~KindInLog("seek") /\ ~KindInLog("write") /\ ~KindInLog("read")
        /\ store = ioPre.store
        /\ ioErrs \in {<<>>, <<"sync failed">>}
        /\ (ioErrs = <<>>) <=> InLog(<<"sync", "nil">>)

\* C16: every write of block data is made with the store positioned at
\* BlockIndex * (B+V) of the cached block; if the store's Seek to that position
\* fails, flush writes nothing and reports the failure; with no cached block,
\* flush makes no seek and no write and succeeds.
C16_FlushPositioned ==
    /\ \A i \in 1..Len(ioLog) :
           ioLog[i][1] = "write" =>
               /\ WritePositioned(i)
               /\ i > 1 /\ ioLog[i - 1] # <<"fault", "seek">>
    /\ (last.op = "Sync" /\ InLog(<<"fault", "seek">>)) => ioErrs # <<>>
    /\ NothingFlushed

\* the same for the calls during which no Seek of the store failed
C16_FlushPositionedSeeksDone ==
    /\ ~InLog(<<"fault", "seek">>) =>
           \A i \in 1..Len(ioLog) : ioLog[i][1] = "write" => WritePositioned(i)
    /\ NothingFlushed

\* a Sync whose Seek failed: the block was written where the store stood, at
\* another place than its own, and Sync returned nil
C16_WroteElsewhere ==
    /\ last.op = "Sync" /\ HadBlock
    /\ InLog(<<"fault", "seek">>)
    /\ \E i \in 1..Len(ioLog) : ioLog[i][1] = "write" /\ ~WritePositioned(i)
    /\ store # ioPre.store
    /\ ioErrs = <<>>

\* a Sync with no cached block
C16_NothingToFlush == last.op = "Sync" /\ ~HadBlock /\ ioLog = <<<<"sync", "nil">>>>

\* the place in the log of the start of the pass that made the entry at place i
PassOf(i) ==
    CHOOSE j \in 1..i :
        /\ ioLog[j][1] \in {"rpass", "wpass"}
        /\ \A k \in (j + 1)..i : ioLog[k][1] \notin {"rpass", "wpass"}

\* the cursor at the end of the pass that made the entry at place i: the cursor
\* the next pass started with, or the one the call left
CursorAfter(i) ==
    IF \E j \in (i + 1)..Len(ioLog) : ioLog[j][1] \in {"rpass", "wpass"}
    THEN ioLog[CHOOSE j \in (i + 1)..Len(ioLog) :
                   /\ ioLog[j][1] \in {"rpass", "wpass"}
                   /\ \A k \in (i + 1)..(j - 1) : ioLog[k][1] \notin {"rpass", "wpass"}][4]
    ELSE index

\* the merge logged at place i, made in the pass that started with the entry w
MergeWithinBlock(i, w) ==
    /\ ioLog[i][2] = GoMod(w[4], blockSize)
    /\ ioLog[i][3] = Min(w[3], blockSize - ioLog[i][2])
    /\ ioLog[i][3] >= 1
    /\ CursorAfter(i) = w[4] + ioLog[i][3]
    /\ ioLog[i][5] = Max(ioLog[i][4], ioLog[i][2] + ioLog[i][3])
    /\ ioLog[i][5] <= blockSize

\* C17: the cached block never holds more than B bytes, and each pass of
\* Write's loop at in-block offset r consumes exactly min(remaining input,
\* B - r) >= 1 bytes, advances Cursor by that number, and leaves the cached
\* block with length max(previous length, r + consumed) <= B.
C17_MergeWithinBlock ==
    /\ BlockLen(currentBlock) <= blockSize
    /\ last.op = "Write" =>
           \A i \in 1..Len(ioLog) :
               ioLog[i][1] = "merge" => MergeWithinBlock(i, ioLog[PassOf(i)])

\* a Write of two passes: the first ends a block from inside it, the second
\* starts the next block
C17_Witness ==
    /\ last.op = "Write" /\ last.err = "nil" /\ last.n = 2
    /\ blockSize = 2
    /\ \E i, j \in 1..Len(ioLog) :
           /\ i < j
           /\ ioLog[i][1] = "merge" /\ ioLog[i][2] = 1 /\ ioLog[i][3] = 1
           /\ ioLog[j][1] = "merge" /\ ioLog[j][2] = 0 /\ ioLog[j][3] = 1
    /\ index = ioPre.index + 2

\* the last call was a Read or a Write whose last pass loaded the block of the
\* cursor and found the cursor beyond the data of that block
BeyondData ==
    /\ last.op \in {"Read", "Write"}
    /\ Len(ioLog) > 0
    /\ ~KindInLog("fault")
    /\ GoMod(index, blockSize) > BlockLen(currentBlock)

\* the last pass of the last call transferred no byte, left the cursor where
\* it was and made no Write on the store
LastPassIdle ==
    /\ ioLog[PassOf(Len(ioLog))][4] = index
    /\ ioLog[PassOf(Len(ioLog))][2] = last.n
    /\ \A k \in (PassOf(Len(ioLog)) + 1)..Len(ioLog) : ioLog[k][1] \in {"seek", "read"}
    /\ store = ioPre.store

\* C18: when Cursor lies beyond the end of the data in its block, Read fails
\* with InvalidSeek and Write fails with InvalidSeek; in both cases no byte is
\* transferred in that pass, Cursor is not advanced and nothing is written to
\* the store.
C18_BeyondDataInvalidSeek ==
    BeyondData => last.err = "ErrInvalidSeek" /\ LastPassIdle

\* what the code does: Read fails with ErrInvalidSeek, Write with an error of
\* its own that is not ErrInvalidSeek
C18_BeyondDataFails ==
    BeyondData =>
        /\ last.err = (IF last.op = "Read" THEN "ErrInvalidSeek" ELSE "Invalid offset")
        /\ LastPassIdle

\* a Write with the cursor beyond the data of its block
C18_WriteBeyondData ==
    /\ BeyondData /\ last.op = "Write" /\ Len(last.d) > 0
    /\ last.err = "Invalid offset" /\ last.n = 0

\* a Read with the cursor beyond the data of its block
C18_ReadBeyondData ==
    /\ BeyondData /\ last.op = "Read"
    /\ last.err = "ErrInvalidSeek" /\ last.n = 0

\* the errors loadBlock returns when the store's Seek or Read fails
LoadErrors == {"Error seeking to start of block", "Error reading block"}

\* C19: if the load of the block at Cursor fails during Read (the store's Seek
\* or Read fails), Read returns that error at once: the failing pass copies no
\* byte into the caller's buffer and does not advance Cursor.
C19_LoadFailureReturnsAtOnce ==
    (last.op = "Read" /\ KindInLog("fault")) =>
        /\ last.err \in LoadErrors
        /\ ioLog[PassOf(Len(ioLog))][4] = index
        /\ ioLog[PassOf(Len(ioLog))][2] = last.n

\* a Read whose Seek failed and that handed out a byte of the block cached
\* before, a block other than the one of the cursor, and moved the cursor
C19_CopiedStaleBlock ==
    /\ last.op = "Read" /\ InLog(<<"fault", "seek">>)
    /\ Len(ioLog) = 4
    /\ HadBlock /\ ioPre.idx # GoDiv(ioPre.index, blockSize)
    /\ last.n > 0
    /\ last.out = Slice(ioPre.block, GoMod(ioPre.index, blockSize),
                        GoMod(ioPre.index, blockSize) + last.n)
    /\ index = ioPre.index + last.n
    /\ last.err = "Error seeking to start of block"

\* a Read whose load failed and that reported the end of the stream instead
C19_ErrorMasked == last.op = "Read" /\ KindInLog("fault") /\ last.err = "EOF"

\* the places in the log where a pass of the loop of Read or Write starts
Passes == {i \in 1..Len(ioLog) : ioLog[i][1] \in {"rpass", "wpass"}}

\* the length of the buffer handed to the last call
BufferLen == IF last.op = "Read" THEN last.m ELSE Len(last.d)

\* C20: Read and Write terminate: every pass of the Read loop, the Write loop
\* and the load loop either returns or strictly increases the number of bytes
\* transferred, so Read(p) and Write(p) finish after at most len(p) passes.
C20_PassesProgress ==
    last.op \in {"Read", "Write"} =>
        /\ Cardinality(Passes) <= BufferLen
        /\ \A i, j \in Passes : i < j => ioLog[i][2] < ioLog[j][2]
        /\ \A i \in Passes : ioLog[i][2] < BufferLen /\ ioLog[i][2] <= last.n
        /\ last.n <= BufferLen
        /\ \A i \in 1..(Len(ioLog) - 1) :
               (ioLog[i][1] = "read" /\ ioLog[i + 1][1] = "read") =>
                   /\ ioLog[i + 1][3] > ioLog[i][3]
                   /\ ioLog[i + 1][3] < blockSize

\* a Read of three bytes in two passes, the second of them with a load loop
\* of two passes
C20_Witness ==
    /\ last.op = "Read" /\ last.m = 3 /\ last.n = 3
    /\ Cardinality(Passes) = 2
    /\ \E i \in 1..(Len(ioLog) - 1) : ioLog[i][1] = "read" /\ ioLog[i + 1][1] = "read"

\* a Write of three bytes in three passes
C20_WitnessWrite ==
    /\ last.op = "Write" /\ Len(last.d) = 3 /\ last.n = 3
    /\ Cardinality(Passes) = 3

\* the length of one full sealed block on the wire
SealedLen == NONCE_SIZE + Overhead + trBlockSize

\* C21: an Encrypt call, src appended to the accumulator: with less than B
\* bytes accumulated and atEOF false it signals need-more-source, 0 bytes
\* produced and all of src consumed; otherwise, with a destination shorter
\* than one full sealed block, it signals need-more-destination, 0 bytes
\* produced, nothing beyond src consumed and the accumulated bytes kept;
\* otherwise it succeeds with nonceLen + overhead + min(B, accumulated) bytes
\* produced and leaves the accumulator empty.
C21_EncryptOutcome ==
    trLast.op = "Encrypt" =>
        IF Len(trLast.acc) < trBlockSize /\ ~trLast.atEOF
        THEN /\ trLast.err = "ErrShortSrc"
             /\ trLast.nDst = 0
             /\ trLast.nSrc = trLast.len
             /\ encBuffer = trLast.acc
        ELSE IF trLast.cap < SealedLen
             THEN /\ trLast.err = "ErrShortDst"
                  /\ trLast.nDst = 0
                  /\ trLast.nSrc = trLast.len
                  /\ encBuffer = trLast.acc
        ELSE /\ trLast.err = "nil"
             /\ trLast.nDst = NONCE_SIZE + Overhead + Min(trBlockSize, Len(trLast.acc))
             /\ trLast.nSrc = trLast.len
             /\ encBuffer = <<>>

\* need-more-destination with bytes kept for the retry
C21_Witness ==
    /\ trLast.op = "Encrypt" /\ trLast.err = "ErrShortDst"
    /\ Len(trLast.acc) >= trBlockSize /\ trLast.len > 0
    /\ encBuffer = trLast.acc

\* need-more-source
C21_WitnessShortSrc ==
    /\ trLast.op = "Encrypt" /\ trLast.err = "ErrShortSrc"
    /\ trLast.len > 0 /\ Len(encBuffer) < trBlockSize

\* success at the end of the stream with less than a block accumulated
C21_WitnessSealed ==
    /\ trLast.op = "Encrypt" /\ trLast.err = "nil" /\ trLast.atEOF
    /\ trBlockSize = 2 /\ Len(trLast.acc) = 1
    /\ trLast.nDst = NONCE_SIZE + Overhead + 1

\* a cell of the wire that carries an encrypted byte
IsByteCell(c) == c[1] = 1

\* the plaintext bytes the sealed blocks of the wire carry, in order
WirePlain ==
    [i \in 1..Len(SelectSeq(wire, IsByteCell)) |-> SelectSeq(wire, IsByteCell)[i][5]]

\* the Encrypt calls have ended with atEOF set and nothing has touched the wire
EncryptEnded == trLast.op = "Encrypt" /\ phase = "wire" /\ tampered = "none"

\* C22: over a sequence of Encrypt calls ending with atEOF = true, every source
\* byte that Encrypt reported as consumed is, in input order, in the plaintext
\* of exactly one sealed block: no consumed byte is dropped, also when a call
\* supplies more than B bytes or the accumulator holds more than one block.
C22_NoConsumedByteDropped ==
    EncryptEnded => WirePlain = Slice(plain, 0, given)

\* the same for the streams of at most one block
C22_OneBlockKept ==
    (EncryptEnded /\ given <= trBlockSize) => WirePlain = Slice(plain, 0, given)

\* a stream that ended with consumed bytes in no sealed block: one call had
\* more than one block accumulated
C22_Dropped ==
    /\ EncryptEnded
    /\ given = Len(plain) /\ given > trBlockSize
    /\ Len(WirePlain) < given
    /\ WirePlain = Slice(plain, 0, Len(WirePlain))

\* the last Decrypt call ended the stream with a fragment accumulated that is
\* too short to hold a nonce and a tag
TruncatedTail ==
    /\ trLast.op = "Decrypt" /\ trLast.atEOF
    /\ Len(trLast.acc) > 0
    /\ Len(trLast.acc) < NONCE_SIZE + Overhead

\* C23: Decrypt reports success only for input it has authenticated: at atEOF
\* with a non-empty fragment too short to hold a nonce and a tag accumulated it
\* reports an error, not success with 0 bytes, and it never reports success
\* while leaving bytes in the accumulator.
C23_DecryptSucceedsOnlyAuthenticated ==
    /\ TruncatedTail => trLast.err # "nil"
    /\ (trLast.op = "Decrypt" /\ trLast.err = "nil") => decBuffer = <<>>

\* the same for the fragments that hold more than a nonce
C23_CutInTagFails ==
    (TruncatedTail /\ Len(trLast.acc) > NONCE_SIZE) =>
        /\ trLast.err \in {"errDecrypt", "ErrShortDst"}
        /\ trLast.nDst = 0

\* a stream cut behind its first nonce: Decrypt reports success with 0 bytes
\* and keeps the fragment
C23_TruncatedAccepted ==
    /\ TruncatedTail /\ tampered = "cutAfterNonce"
    /\ trLast.err = "nil" /\ trLast.nDst = 0
    /\ decBuffer = wire /\ Len(decBuffer) = NONCE_SIZE

\* a stream cut inside its first tag: Decrypt reports errDecrypt
C23_CutInTagRejected ==
    /\ TruncatedTail /\ tampered = "cutInTag"
    /\ trLast.err = "errDecrypt"

\* the last call was a Sync or a Close
Flushing == last.op \in {"Sync", "Close"}

\* C24 as stated: on a handle on which only Seek, Read and ReadAt were
\* performed, Sync and Close issue no Write on the store, and the store's bytes
\* are unchanged.
C24_ReadOnlyNeverWrites ==
    Flushing => ~KindInLog("write") /\ store = ioPre.store

\* C24, amended: on such a handle Sync and Close write the cached block back
\* whenever a block is cached, which every Read that loaded one leaves behind:
\* they make one Seek and one Write of that block on the store, and none only
\* when no block is cached; when no call on the store fails, the logical
\* content of the store is unchanged.
C24_FlushRewritesCachedBlock ==
    Flushing =>
        /\ HadBlock <=> KindInLog("write")
        /\ HadBlock <=> KindInLog("seek")
        /\ \A i \in 1..Len(ioLog) :
               ioLog[i][1] = "write" =>
                   /\ ioLog[i][3] = ioPre.idx
                   /\ ioLog[i][4] = Len(ioPre.block)
                   /\ \A j \in 1..Len(ioLog) : ioLog[j][1] = "write" => j = i
        /\ ~KindInLog("fault") => content = pre.content /\ WellFormed

\* a Sync after a Read: the block the Read cached is written again
C24_Witness ==
    /\ last.op = "Sync" /\ ioErrs = <<>>
    /\ HadBlock /\ Len(ioPre.block) > 0
    /\ InLog(<<"write", ioPre.idx * (blockSize + blockOverhead), ioPre.idx,
               Len(ioPre.block)>>)
    /\ content = pre.content /\ Len(content) > 0

\* a Close with no Read before it: no call on the store but its Sync and Close
C24_WitnessNoBlock ==
    /\ last.op = "Close" /\ ~HadBlock
    /\ ioLog = <<<<"sync", "nil">>, <<"close", "nil">>>>

\* the handle that took the last step
Stepped == multi.hs[multi.who]

\* the bytes the handle merged in its last pass
MergedBytes(H) == Slice(H.d, H.n - (H.e.index - H.at), H.n)

\* C25: two engines over the same store are not coordinated: a flush writes
\* the block as its engine loaded and merged it, whatever the other engine has
\* stored in between, so when both load a block before either flushes, the
\* bytes of the one that flushes first are missing from the stored block.
C25_FlushWritesBlockAsLoaded ==
    (multi.act = "flush" /\ Stepped.err = "nil") =>
        /\ GoMod(Stepped.at, blockSize) <= BlockLen(Stepped.loaded)
        /\ Stepped.e.block
               = Splice(BlockBytes(Stepped.loaded), GoMod(Stepped.at, blockSize),
                        MergedBytes(Stepped))
        /\ Slice(store, Stepped.e.idx * (blockSize + blockOverhead),
                 Min(Len(store), Stepped.e.idx * (blockSize + blockOverhead)
                                     + blockOverhead + Len(Stepped.e.block)))
               = SealedBlock(blockOverhead, Stepped.e.block)

\* the lost update: both Writes returned nil, handle 1 wrote its byte at offset
\* 0 and handle 2 its byte at offset 1 of block 0, and the stored block has
\* the byte of handle 2 but not the byte of handle 1
C25_LostUpdate ==
    /\ blockSize = 2
    /\ \A h \in Handles : multi.hs[h].pc = "done" /\ multi.hs[h].err = "nil"
                              /\ multi.hs[h].n = 1
    /\ multi.hs[1].at = 0 /\ multi.hs[1].d = <<1>>
    /\ multi.hs[2].at = 1 /\ multi.hs[2].d = <<2>>
    /\ multi.who = 2
    /\ content = <<2, 2>>

\* the same two Writes one after the other: both bytes are in the stored block
C25_Serial ==
    /\ blockSize = 2
    /\ \A h \in Handles : multi.hs[h].pc = "done" /\ multi.hs[h].err = "nil"
                              /\ multi.hs[h].n = 1
    /\ multi.hs[1].at = 0 /\ multi.hs[2].at = 1
    /\ content = <<1, 2>>

====
